---- MODULE Spec2Model ----
(***************************************************************************)
(* Model of the comments backend (backend/src/main.rs, backend/src/sql.rs).*)
(*                                                                         *)
(* The store is the three tables created by set_up_sql_db: GITHUB_RNG      *)
(* (correlation tokens), PSEUDO_COMMENT (identities bound to a token) and  *)
(* COMMENT (published comments).  Every HTTP handler runs in a request     *)
(* slot; a handler that issues several SQL statements is one action per    *)
(* statement (or per sql.rs function where that function is a single       *)
(* statement after its reap), because the handlers run concurrently and    *)
(* no statement group is wrapped in a transaction.                         *)
(*                                                                         *)
(* Time is the database clock in minutes.  uuid v5 is modelled as an       *)
(* injective function of the hashed string (collision resistance of        *)
(* SHA-1); the hashed string itself is built as the code builds it.        *)
(***************************************************************************)
EXTENDS Integers, Sequences, FiniteSets, TLC

\* ---------------------------------------------------------------- bounds
\* The clock advances at most MaxTicks times, one expiry window each time.
MaxTicks == 2
\* COMMENT holds at most MaxComments rows.
MaxComments == 2
\* The server accepts at most MaxRequests requests.
MaxRequests == 4
\* The number of collisions after which a bounded add_comment would give up.
AttemptLimit == 2

\* ------------------------------------------------------- program constants
\* INTERVAL 60 MINUTE of every reap statement.
ExpiryMinutes == 60
\* for _idx in 0..3 of the identity fetch.
FetchAttempts == 3
\* HTTP status codes written by the handlers and by Error::write.
OK == "200 OK"
BAD_REQUEST == "400 Bad Request"
INTERNAL_SERVER_ERROR == "500 Internal Server Error"
\* A handler that panicked (mysql's from_row on a NULL column) answers nothing.
Panicked == "panicked"
NoStatus == "none"

\* The clock counts minutes and moves in steps of one window.
TickMinutes == ExpiryMinutes

\* ------------------------------------------------------------ value sets
NULL == "NULL"
\* The values uuid::Uuid::new_v4() can return in create_rng_uuid.
Tokens == {"t1", "t2"}
\* The values uuid::Uuid::new_v4() can return in add_pseudo_comment_data.
PseudoUuids == {"q1", "q2"}
\* Config.allowed_bids and Config.allowed_urls.
allowed_bids == {"p1"}
allowed_urls == {<<"https", "blog">>}
\* blog_id and blog_url query parameters a client can send.
BlogIds == {"p1", "p12"}
BlogUrls == {<<"https", "blog", "post">>, <<"https", "evil">>}
\* comment_text values a client can send.
Texts == {"a", "b"}
\* What GET https://api.github.com/user can resolve to.
U3 == [user_id |-> 3, username |-> "cy", userurl |-> "u3", useravatar |-> "a3"]
U23 == [user_id |-> 23, username |-> "bo", userurl |-> "u23", useravatar |-> "a23"]
\* User 23 after a change of display name.
U23b == [user_id |-> 23, username |-> "bob", userurl |-> "u23", useravatar |-> "a23"]
Identities == {U3, U23, U23b}
UserIds == {i.user_id : i \in Identities}
NoUser == [user_id |-> 0, username |-> NULL, userurl |-> NULL, useravatar |-> NULL]
\* A JSON field that is missing, and one that holds null instead of a string.
Absent == "absent"
JsonNull == "null"
\* The profiles GET https://api.github.com/user can return for user 23.
Profiles ==
    [ id : {23}, name : {Absent, JsonNull, "bo"}, login : {Absent, JsonNull, "b23"},
      html_url : {"u23"}, avatar_url : {"a23"} ]
\* How a send().await of the identity fetch can end.
FetchResults == {"2xx", "non2xx", "transport"}
Slots == {1, 2}

VARIABLES
    GITHUB_RNG,      \* set of [uuid, date] and, as history of the row: issued_by (the
                     \* begin request that inserted it), bound (the user id first
                     \* bound with it, 0 when none), used (the first write to
                     \* COMMENT by a request carrying it, NULL when none)
    PSEUDO_COMMENT,  \* set of [uuid, state, user_id, username, userurl, useravatar,
                     \*         blog_post_id, comment_id, date]
    COMMENT,         \* set of [uuid, blog_post_id, user_id, username, userurl,
                     \*         useravatar, creation_date, edit_date, comment]
    now,             \* CURRENT_TIMESTAMP / UtcDateTime::now(), in minutes
    req,             \* request slot -> the handler running in it and its locals
    resp,            \* the response the last step sent: the request it answers and
                     \* its status (NoResponse when the last step sent none)
    issued,          \* history: the tokens create_rng_uuid has ever returned
    authed,          \* history: the <<token, comment id, user id>> triples for which
                     \* check_edit_comment_auth has returned true in a callback
    served           \* the number of requests the server has accepted

vars == <<GITHUB_RNG, PSEUDO_COMMENT, COMMENT, now, req, resp, issued, authed, served>>

\* ------------------------------------------------------- request slots
NoPseudo ==
    [ user_id |-> 0, username |-> NULL, userurl |-> NULL, useravatar |-> NULL,
      blog_post_id |-> NULL, comment_id |-> NULL ]

Idle ==
    [ kind |-> "idle", pc |-> "idle", state |-> NULL, blog_id |-> NULL,
      comment_id |-> NULL, user |-> NoUser, pseudo_comment |-> NoPseudo,
      at |-> 0, uuid_str |-> NULL, attempts |-> 0,
      posts |-> 0, idx |-> 0, ret |-> NULL, user_info |-> NULL,
      blog_url |-> <<>>, comments |-> <<>> ]

\* The response to request r, sent from the statement r.pc.
Response(r, status) ==
    [ kind |-> r.kind, pc |-> r.pc, state |-> r.state, blog_id |-> r.blog_id,
      blog_url |-> r.blog_url, comment_id |-> r.comment_id,
      user_id |-> r.user.user_id, comments |-> r.comments, status |-> status ]

NoResponse == Response(Idle, NoStatus)

Free(s) == req[s].pc = "idle"
\* The server accepts one more request.
Accept ==
    /\ served < MaxRequests
    /\ served' = served + 1
At(s, kind, pc) == req[s].kind = kind /\ req[s].pc = pc


\* ------------------------------------------------------------- sql.rs
\* DELETE FROM <table> FOR PORTION OF date_period FROM '0-0-0' TO cut deletes
\* the rows whose period [date, date2) ends by cut.  date2 is date plus one
\* second and DATETIME values are whole seconds, so date2 <= cut is
\* date < cut and no row straddles cut.
DeletePortion(rows, cut) == {r \in rows : ~(r.date < cut)}

\* ReapCut that takes every row written before this minute.
ReapCut_now(t) == t

\* ReapCut with INTERVAL 60 HOUR.
ReapCut_hours(t) == t - 60 * ExpiryMinutes

\* SUBDATE(CURRENT_TIMESTAMP, INTERVAL 60 MINUTE)
ReapCut(t) == t - ExpiryMinutes

Reap(rows, t) == DeletePortion(rows, ReapCut(t))

has_psuedo_commment_with_state(rows, state) == \E p \in rows : p.state = state

RngRow(uuid, t, r) ==
    [ uuid |-> uuid, date |-> t,
      issued_by |-> [kind |-> r.kind, comment_id |-> r.comment_id],
      bound |-> 0, used |-> NULL ]

\* check_rng_uuid that finds every token.
check_rng_uuid_any(rows, uuid) == TRUE

\* SELECT uuid FROM GITHUB_RNG WHERE uuid = ?
check_rng_uuid(rows, uuid) == \E r \in rows : r.uuid = uuid

PseudoRow(uuid, state, user, blog_post_id, comment_id, t) ==
    [ uuid |-> uuid, state |-> state, user_id |-> user.user_id,
      username |-> user.username, userurl |-> user.userurl,
      useravatar |-> user.useravatar, blog_post_id |-> blog_post_id,
      comment_id |-> comment_id, date |-> t ]

\* check_edit_comment_auth with a WHERE clause that forgets the user.
check_edit_comment_auth_any_user(rows, cid, uid) ==
    \E c \in rows : c.uuid = cid

\* check_edit_comment_auth with a WHERE clause that forgets the comment.
check_edit_comment_auth_any_comment(rows, cid, uid) ==
    \E c \in rows : c.user_id = uid

\* SELECT uuid FROM COMMENT WHERE uuid = ? AND user_id = ?
check_edit_comment_auth(rows, cid, uid) ==
    \E c \in rows : c.uuid = cid /\ c.user_id = uid

\* try_delete_comment with a WHERE clause that names the user alone.
try_delete_comment_of_user(rows, cid, uid) ==
    {c \in rows : c.user_id # uid}

\* DELETE FROM COMMENT WHERE uuid = ? AND user_id = ?
try_delete_comment(rows, cid, uid) ==
    {c \in rows : ~(c.uuid = cid /\ c.user_id = uid)}

\* A rendering of the time that keeps the date and drops the time of day.
utc_time_to_string_date_only(t) == "@" \o ToString(t \div (24 * 60))

\* UtcDateTime::to_string: a rendering that is injective and self-delimiting.
utc_time_to_string(t) == "@" \o ToString(t)

\* combined = blog_post_id + user_id.to_string() + utc_time.to_string()
combined(blog_post_id, user_id, t) ==
    blog_post_id \o ToString(user_id) \o utc_time_to_string(t)

\* uuid::Uuid::new_v5(&namespace, name).to_string()
new_v5(name) == "c:" \o name

\* CommentRow with the INSERT's username and userurl values in each
\* other's place.
CommentRow_swapped(uuid, p, comment, t) ==
    [ uuid |-> uuid, blog_post_id |-> p.blog_post_id, user_id |-> p.user_id,
      username |-> p.userurl, userurl |-> p.username, useravatar |-> p.useravatar,
      creation_date |-> t, edit_date |-> t, comment |-> comment ]

\* INSERT INTO COMMENT (uuid, blog_post_id, user_id, username, userurl,
\* useravatar, comment); both dates default to CURRENT_TIMESTAMP.
CommentRow(uuid, p, comment, t) ==
    [ uuid |-> uuid, blog_post_id |-> p.blog_post_id, user_id |-> p.user_id,
      username |-> p.username, userurl |-> p.userurl, useravatar |-> p.useravatar,
      creation_date |-> t, edit_date |-> t, comment |-> comment ]

\* edit_comment_update as an upsert (REPLACE INTO COMMENT): a comment that is
\* gone is written anew.
edit_comment_upsert(rows, p, comment, t) ==
    {c \in rows : c.uuid # p.comment_id}
        \cup {[ uuid |-> p.comment_id, blog_post_id |-> "p1", user_id |-> p.user_id,
                username |-> p.username, userurl |-> p.userurl,
                useravatar |-> p.useravatar, creation_date |-> t, edit_date |-> t,
                comment |-> comment ]}

\* edit_comment_update with WHERE user_id = ?: every comment of the bound
\* user is rewritten.
edit_comment_update_of_user(rows, p, comment, t) ==
    { IF c.user_id = p.user_id
        THEN [c EXCEPT !.username = p.username, !.userurl = p.userurl,
                       !.useravatar = p.useravatar, !.edit_date = t,
                       !.comment = comment]
        ELSE c : c \in rows }

\* edit_comment_update with a SET list that also writes blog_post_id, user_id
\* and creation_date from the bound row.
edit_comment_update_every_column(rows, p, comment, t) ==
    { IF c.uuid = p.comment_id
        THEN [c EXCEPT !.blog_post_id = p.blog_post_id, !.user_id = p.user_id,
                       !.username = p.username, !.userurl = p.userurl,
                       !.useravatar = p.useravatar, !.creation_date = t,
                       !.edit_date = t, !.comment = comment]
        ELSE c : c \in rows }

\* UPDATE COMMENT SET username, userurl, useravatar, edit_date, comment WHERE uuid = ?
edit_comment_update(rows, p, comment, t) ==
    { IF c.uuid = p.comment_id
        THEN [c EXCEPT !.username = p.username, !.userurl = p.userurl,
                       !.useravatar = p.useravatar, !.edit_date = t,
                       !.comment = comment]
        ELSE c : c \in rows }

\* DELETE FROM PSEUDO_COMMENT WHERE state = ?
delete_pseudo_comment(rows, state) == {p \in rows : p.state # state}

\* blog_url.starts_with(val)
starts_with(url, val) ==
    Len(val) <= Len(url) /\ SubSeq(url, 1, Len(val)) = val

is_allowed_url(blog_url) == \E val \in allowed_urls : starts_with(blog_url, val)
is_allowed_bid(blog_id) == \E val \in allowed_bids : blog_id = val

\* The history columns of GITHUB_RNG: what the requests carrying a token did
\* first.
LogBound(rows, state, uid) ==
    { IF r.uuid = state /\ r.bound = 0 THEN [r EXCEPT !.bound = uid] ELSE r : r \in rows }
LogUsed(rows, state, what) ==
    { IF r.uuid = state /\ r.used = NULL THEN [r EXCEPT !.used = what] ELSE r : r \in rows }

\* The comment_id query parameters worth sending: the ids of the published
\* comments and one no comment has.
CommentIds == {c.uuid : c \in COMMENT} \cup {"nocomment"}

\* ------------------------------------------------------------ handlers
Answer(s, r, status) ==
    /\ req' = [req EXCEPT ![s] = Idle]
    /\ resp' = Response(r, status)

\* The handler in slot s goes on to its next statement.
Goto(s, r) ==
    /\ req' = [req EXCEPT ![s] = r]
    /\ resp' = NoResponse


Start(kind, state, blog_id, comment_id) ==
    [ Idle EXCEPT !.kind = kind, !.state = state, !.blog_id = blog_id,
                  !.comment_id = comment_id ]

\* sql::create_rng_uuid, called by the three login_to_* handlers.
create_rng_uuid(s, r) ==
    LET reaped == Reap(GITHUB_RNG, now) IN
    /\ \E rng_uuid \in Tokens :
        /\ ~has_psuedo_commment_with_state(PSEUDO_COMMENT, rng_uuid)
        /\ IF \E x \in reaped : x.uuid = rng_uuid
             THEN /\ GITHUB_RNG' = reaped
                  /\ Answer(s, r, INTERNAL_SERVER_ERROR)
                  /\ UNCHANGED issued
             ELSE /\ GITHUB_RNG' = reaped \cup {RngRow(rng_uuid, now, r)}
                  /\ Answer(s, [r EXCEPT !.state = rng_uuid], OK)
                  /\ issued' = issued \cup {rng_uuid}
    /\ UNCHANGED <<PSEUDO_COMMENT, COMMENT, now, authed>>

login_to_comment(s, blog_id, blog_url) ==
    /\ Free(s)
    /\ Accept
    /\ LET r == [Start("login_to_comment", NULL, blog_id, NULL)
                    EXCEPT !.blog_url = blog_url] IN
       IF ~is_allowed_url(blog_url) \/ ~is_allowed_bid(blog_id)
         THEN /\ Answer(s, r, BAD_REQUEST)
              /\ UNCHANGED <<GITHUB_RNG, PSEUDO_COMMENT, COMMENT, now, issued, authed>>
         ELSE create_rng_uuid(s, r)

login_to_edit_comment(s, comment_id) ==
    /\ Free(s)
    /\ Accept
    /\ create_rng_uuid(s, Start("login_to_edit_comment", NULL, NULL, comment_id))

login_to_delete_comment(s, comment_id) ==
    /\ Free(s)
    /\ Accept
    /\ create_rng_uuid(s, Start("login_to_delete_comment", NULL, NULL, comment_id))

\* The head of the three OAuth callbacks: sql::check_rng_uuid, then the code
\* exchange and the identity fetch, which touch no table.  NoUser stands
\* for an exchange or fetch that failed.
callback_begin(s, r, user, next) ==
    LET reaped == Reap(GITHUB_RNG, now) IN
    /\ Free(s)
    /\ Accept
    /\ GITHUB_RNG' = reaped
    /\ IF ~check_rng_uuid(reaped, r.state)
         THEN Answer(s, r, BAD_REQUEST)
         ELSE IF user = NoUser
                THEN Answer(s, r, INTERNAL_SERVER_ERROR)
                ELSE Goto(s, [r EXCEPT !.user = user, !.pc = next])
    /\ UNCHANGED <<PSEUDO_COMMENT, COMMENT, now, issued, authed>>

\* sql::check_remove_rng_uuid, the tail of the finalizing handlers.
check_remove_rng_uuid(rows, uuid, t) == {r \in Reap(rows, t) : r.uuid # uuid}

\* callback_recv that calls sql::check_remove_rng_uuid: the token is taken out
\* of GITHUB_RNG as it is checked.
callback_recv_removing(s, r) ==
    LET reaped == Reap(GITHUB_RNG, now) IN
    /\ Free(s)
    /\ Accept
    /\ GITHUB_RNG' = check_remove_rng_uuid(GITHUB_RNG, r.state, now)
    /\ IF ~check_rng_uuid(reaped, r.state)
         THEN Answer(s, r, BAD_REQUEST)
         ELSE Goto(s, [r EXCEPT !.pc = "exchange"])
    /\ UNCHANGED <<PSEUDO_COMMENT, COMMENT, now, issued, authed>>

\* The callbacks statement by statement.  First sql::check_rng_uuid.
callback_recv(s, r) ==
    LET reaped == Reap(GITHUB_RNG, now) IN
    /\ Free(s)
    /\ Accept
    /\ GITHUB_RNG' = reaped
    /\ IF ~check_rng_uuid(reaped, r.state)
         THEN Answer(s, r, BAD_REQUEST)
         ELSE Goto(s, [r EXCEPT !.pc = "exchange"])
    /\ UNCHANGED <<PSEUDO_COMMENT, COMMENT, now, issued, authed>>

\* POST https://github.com/login/oauth/access_token, sent once; anything but
\* a JSON body with a string access_token ends the handler.
callback_exchange(s, access_token) ==
    LET r == [req[s] EXCEPT !.posts = @ + 1] IN
    /\ req[s].kind \in {"github_auth_make_comment", "github_auth_edit_comment",
                        "github_auth_del_comment"}
    /\ req[s].pc = "exchange"
    /\ IF access_token
         THEN Goto(s, [r EXCEPT !.pc = "fetch"])
         ELSE Answer(s, r, INTERNAL_SERVER_ERROR)
    /\ UNCHANGED <<GITHUB_RNG, PSEUDO_COMMENT, COMMENT, now, issued, authed, served>>

\* user_name that takes the login whenever it is a string.
user_name_login_first(user_info) ==
    IF user_info.login \notin {Absent, JsonNull} THEN user_info.login
    ELSE IF user_info.name \notin {Absent, JsonNull} THEN user_info.name
    ELSE NULL

\* The display name: "name" when it is a string, else "login", which must be
\* there and be a string (NULL stands for the Err).
user_name(user_info) ==
    IF user_info.name # Absent /\ user_info.name # JsonNull THEN user_info.name
    ELSE IF user_info.login = Absent \/ user_info.login = JsonNull THEN NULL
    ELSE user_info.login

\* callback_fetch with for _idx in 0..2.
callback_fetch_two_passes(s, ret) ==
    LET r == [req[s] EXCEPT !.idx = @ + 1, !.ret = ret] IN
    /\ req[s].pc = "fetch"
    /\ IF ret = "2xx"
         THEN Goto(s, [r EXCEPT !.pc = "parse"])
         ELSE IF r.idx < FetchAttempts - 1
                THEN Goto(s, r)
                ELSE Answer(s, r, INTERNAL_SERVER_ERROR)
    /\ UNCHANGED <<GITHUB_RNG, PSEUDO_COMMENT, COMMENT, now, issued, authed, served>>

\* One pass of for _idx in 0..3: GET https://api.github.com/user; a 2xx
\* response breaks out of the loop, anything else sleeps 3 s and goes round;
\* after the last pass without a response the handler ends with an Err.
callback_fetch(s, ret) ==
    LET r == [req[s] EXCEPT !.idx = @ + 1, !.ret = ret] IN
    /\ req[s].pc = "fetch"
    /\ IF ret = "2xx"
         THEN Goto(s, [r EXCEPT !.pc = "parse"])
         ELSE IF r.idx < FetchAttempts
                THEN Goto(s, r)
                ELSE Answer(s, r, INTERNAL_SERVER_ERROR)
    /\ UNCHANGED <<GITHUB_RNG, PSEUDO_COMMENT, COMMENT, now, issued, authed, served>>

\* The profile is read: id, then (not in the delete callback) the display
\* name, html_url and avatar_url.
callback_parse(s, user_info) ==
    LET r == req[s]
        del == r.kind = "github_auth_del_comment"
        name == IF del THEN NULL ELSE user_name(user_info)
    IN /\ r.pc = "parse"
       /\ IF ~del /\ name = NULL
            THEN Answer(s, [r EXCEPT !.user_info = user_info], INTERNAL_SERVER_ERROR)
            ELSE Goto(s, [r EXCEPT !.user_info = user_info,
                                   !.user = [user_id |-> user_info.id, username |-> name,
                                             userurl |-> user_info.html_url,
                                             useravatar |-> user_info.avatar_url],
                                   !.pc = IF r.kind = "github_auth_make_comment"
                                            THEN "add_pseudo" ELSE "check_auth"])
       /\ UNCHANGED <<GITHUB_RNG, PSEUDO_COMMENT, COMMENT, now, issued, authed, served>>

\* add_pseudo_comment_data that also writes the bound identity into the
\* comment it is bound for.
add_pseudo_comment_data_writing_snapshot(s, blog_post_id, comment_id) ==
    LET r == req[s]
        reaped == Reap(PSEUDO_COMMENT, now)
    IN /\ \E uuid \in PseudoUuids :
            /\ ~ \E p \in reaped : p.uuid = uuid
            /\ IF has_psuedo_commment_with_state(reaped, r.state)
                 THEN /\ PSEUDO_COMMENT' = reaped
                      /\ Answer(s, r, INTERNAL_SERVER_ERROR)
                      /\ UNCHANGED <<GITHUB_RNG, COMMENT>>
                 ELSE /\ PSEUDO_COMMENT' = reaped \cup
                            {PseudoRow(uuid, r.state, r.user, blog_post_id, comment_id, now)}
                      /\ Answer(s, r, OK)
                      /\ GITHUB_RNG' = LogBound(GITHUB_RNG, r.state, r.user.user_id)
                      /\ COMMENT' = { IF c.uuid = comment_id
                                        THEN [c EXCEPT !.username = r.user.username,
                                                       !.edit_date = now]
                                        ELSE c : c \in COMMENT }
       /\ UNCHANGED <<now, issued, authed>>

\* sql::add_pseudo_comment_data: the reap, the uuid loop and the INSERT, which
\* fails on the UNIQUE state column when the token is already bound.
add_pseudo_comment_data(s, blog_post_id, comment_id) ==
    LET r == req[s]
        reaped == Reap(PSEUDO_COMMENT, now)
    IN /\ \E uuid \in PseudoUuids :
            /\ ~ \E p \in reaped : p.uuid = uuid
            /\ IF has_psuedo_commment_with_state(reaped, r.state)
                 THEN /\ PSEUDO_COMMENT' = reaped
                      /\ Answer(s, r, INTERNAL_SERVER_ERROR)
                      /\ UNCHANGED GITHUB_RNG
                 ELSE /\ PSEUDO_COMMENT' = reaped \cup
                            {PseudoRow(uuid, r.state, r.user, blog_post_id, comment_id, now)}
                      /\ Answer(s, r, OK)
                      /\ GITHUB_RNG' = LogBound(GITHUB_RNG, r.state, r.user.user_id)
       /\ UNCHANGED <<COMMENT, now, issued, authed>>

github_auth_make_comment(s, blog_id, state, user) ==
    callback_begin(s, Start("github_auth_make_comment", state, blog_id, NULL), user, "add_pseudo")

github_auth_make_comment_bind(s) ==
    /\ At(s, "github_auth_make_comment", "add_pseudo")
    /\ add_pseudo_comment_data(s, req[s].blog_id, NULL)
    /\ UNCHANGED served

\* A caller of sql::add_pseudo_comment_data with arguments of its choice:
\* blog_post_id and comment_id are both Option<&str>.
call_add_pseudo_comment_data(s, state, user, blog_post_id, comment_id) ==
    /\ Free(s)
    /\ Accept
    /\ Goto(s, [Start("add_pseudo_comment_data", state, blog_post_id, comment_id)
                   EXCEPT !.user = user, !.pc = "add_pseudo"])
    /\ UNCHANGED <<GITHUB_RNG, PSEUDO_COMMENT, COMMENT, now, issued, authed>>

call_add_pseudo_comment_data_run(s) ==
    /\ At(s, "add_pseudo_comment_data", "add_pseudo")
    /\ add_pseudo_comment_data(s, req[s].blog_id, req[s].comment_id)
    /\ UNCHANGED served

\* What add_comment and edit_comment keep of the selected PSEUDO_COMMENT row.
Selected(p) ==
    [ user_id |-> p.user_id, username |-> p.username, userurl |-> p.userurl,
      useravatar |-> p.useravatar, blog_post_id |-> p.blog_post_id,
      comment_id |-> p.comment_id ]

remove_rng(s) ==
    /\ req[s].pc = "remove_rng"
    /\ GITHUB_RNG' = check_remove_rng_uuid(GITHUB_RNG, req[s].state, now)
    /\ Answer(s, req[s], OK)
    /\ UNCHANGED <<PSEUDO_COMMENT, COMMENT, now, issued, authed>>
    /\ UNCHANGED served

\* DELETE FROM PSEUDO_COMMENT WHERE state = ?, the last statement of
\* add_comment and of edit_comment.
delete_pseudo(s) ==
    /\ req[s].pc = "delete_pseudo"
    /\ PSEUDO_COMMENT' = delete_pseudo_comment(PSEUDO_COMMENT, req[s].state)
    /\ Goto(s, [req[s] EXCEPT !.pc = "remove_rng"])
    /\ UNCHANGED <<GITHUB_RNG, COMMENT, now, issued, authed>>
    /\ UNCHANGED served

\* submit_comment whose SELECT reads a NULL blog_post_id as the empty string.
submit_comment_null_as_empty(s, state) ==
    LET r == Start("submit_comment", state, NULL, NULL)
        found == {p \in PSEUDO_COMMENT : p.state = state}
    IN /\ Free(s)
       /\ Accept
       /\ IF found = {}
            THEN Answer(s, r, INTERNAL_SERVER_ERROR)
            ELSE \E p \in found :
                   Goto(s, [r EXCEPT !.pseudo_comment = Selected(p), !.at = now,
                                    !.uuid_str = new_v5(combined("", p.user_id, now)),
                                    !.pc = "check_uuid"])
       /\ UNCHANGED <<GITHUB_RNG, PSEUDO_COMMENT, COMMENT, now, issued, authed>>

\* submit_comment -> sql::add_comment: the SELECT of the bound row.  A row
\* bound on the edit path has a NULL blog_post_id, which from_row cannot
\* convert to String: the handler panics.
submit_comment(s, state) ==
    LET r == Start("submit_comment", state, NULL, NULL)
        found == {p \in PSEUDO_COMMENT : p.state = state}
    IN /\ Free(s)
       /\ Accept
       /\ IF found = {}
            THEN Answer(s, r, INTERNAL_SERVER_ERROR)
            ELSE \E p \in found :
                   IF p.blog_post_id = NULL
                     THEN Answer(s, r, Panicked)
                     ELSE Goto(s, [r EXCEPT !.pseudo_comment = Selected(p), !.at = now,
                                      !.uuid_str = new_v5(combined(p.blog_post_id, p.user_id, now)),
                                      !.pc = "check_uuid"])
       /\ UNCHANGED <<GITHUB_RNG, PSEUDO_COMMENT, COMMENT, now, issued, authed>>

\* add_comment's loop: SELECT uuid FROM COMMENT WHERE uuid = ?; a hit sends
\* the handler to sleep, a miss to the INSERT.  attempts counts the hits of
\* this call (the loop itself keeps no count).
add_comment_check(s) ==
    /\ At(s, "submit_comment", "check_uuid")
    /\ IF \E c \in COMMENT : c.uuid = req[s].uuid_str
         THEN Goto(s, [req[s] EXCEPT !.pc = "sleep", !.at = now,
                                     !.attempts = @ + 1])
         ELSE Goto(s, [req[s] EXCEPT !.pc = "insert"])
    /\ UNCHANGED <<GITHUB_RNG, PSEUDO_COMMENT, COMMENT, now, issued, authed>>
    /\ UNCHANGED served

\* After sleep(1 s): the id is derived again from the time it is now.
add_comment_retry(s) ==
    /\ At(s, "submit_comment", "sleep")
    /\ now > req[s].at
    /\ Goto(s, [req[s] EXCEPT !.pc = "check_uuid", !.at = now,
                              !.uuid_str = new_v5(combined(req[s].pseudo_comment.blog_post_id,
                                                           req[s].pseudo_comment.user_id, now))])
    /\ UNCHANGED <<GITHUB_RNG, PSEUDO_COMMENT, COMMENT, now, issued, authed>>
    /\ UNCHANGED served

\* INSERT INTO COMMENT: fails on the primary key when the uuid exists by now.
add_comment_insert(s, comment) ==
    LET r == req[s] IN
    /\ At(s, "submit_comment", "insert")
    /\ IF \E c \in COMMENT : c.uuid = r.uuid_str
         THEN /\ Answer(s, r, INTERNAL_SERVER_ERROR)
              /\ UNCHANGED <<COMMENT, GITHUB_RNG>>
         ELSE /\ Cardinality(COMMENT) < MaxComments
              /\ COMMENT' = COMMENT \cup {CommentRow(r.uuid_str, r.pseudo_comment, comment, now)}
              /\ Goto(s, [r EXCEPT !.pc = "delete_pseudo"])
              /\ GITHUB_RNG' = LogUsed(GITHUB_RNG, r.state, "published")
    /\ UNCHANGED <<PSEUDO_COMMENT, now, issued, authed>>
    /\ UNCHANGED served

github_auth_edit_comment(s, comment_id, state, user) ==
    callback_begin(s, Start("github_auth_edit_comment", state, NULL, comment_id), user,
                   "check_auth")

\* callback_check_auth with the result of check_edit_comment_auth ignored.
callback_check_auth_ignored(s, next) ==
    /\ req[s].pc = "check_auth"
    /\ Goto(s, [req[s] EXCEPT !.pc = next])
    /\ UNCHANGED <<GITHUB_RNG, PSEUDO_COMMENT, COMMENT, now, issued, authed>>

\* The ownership gate of the edit and delete callbacks.
callback_check_auth(s, next) ==
    LET r == req[s] IN
    /\ r.pc = "check_auth"
    /\ IF check_edit_comment_auth(COMMENT, r.comment_id, r.user.user_id)
         THEN /\ Goto(s, [r EXCEPT !.pc = next])
              /\ authed' = authed \cup {<<r.state, r.comment_id, r.user.user_id>>}
         ELSE /\ Answer(s, r, BAD_REQUEST)
              /\ UNCHANGED authed
    /\ UNCHANGED <<GITHUB_RNG, PSEUDO_COMMENT, COMMENT, now, issued>>

github_auth_edit_comment_auth(s) ==
    /\ req[s].kind = "github_auth_edit_comment"
    /\ callback_check_auth(s, "add_pseudo")
    /\ UNCHANGED served

github_auth_edit_comment_bind(s) ==
    /\ At(s, "github_auth_edit_comment", "add_pseudo")
    /\ add_pseudo_comment_data(s, NULL, req[s].comment_id)
    /\ UNCHANGED served

\* submit_edit_comment -> sql::edit_comment: the SELECT of the bound row.  A
\* row bound on the create path has a NULL comment_id: the handler panics.
submit_edit_comment(s, state) ==
    LET r == Start("submit_edit_comment", state, NULL, NULL)
        found == {p \in PSEUDO_COMMENT : p.state = state}
    IN /\ Free(s)
       /\ Accept
       /\ IF found = {}
            THEN Answer(s, r, INTERNAL_SERVER_ERROR)
            ELSE \E p \in found :
                   IF p.comment_id = NULL
                     THEN Answer(s, r, Panicked)
                     ELSE Goto(s, [r EXCEPT !.pseudo_comment = Selected(p), !.pc = "update"])
       /\ UNCHANGED <<GITHUB_RNG, PSEUDO_COMMENT, COMMENT, now, issued, authed>>

edit_comment_write(s, comment) ==
    LET r == req[s] IN
    /\ At(s, "submit_edit_comment", "update")
    /\ COMMENT' = edit_comment_update(COMMENT, r.pseudo_comment, comment, now)
    /\ Goto(s, [r EXCEPT !.pc = "delete_pseudo"])
    /\ GITHUB_RNG' = IF COMMENT' # COMMENT THEN LogUsed(GITHUB_RNG, r.state, "edited")
                                            ELSE GITHUB_RNG
    /\ UNCHANGED <<PSEUDO_COMMENT, now, issued, authed>>
    /\ UNCHANGED served

github_auth_del_comment(s, comment_id, state, user) ==
    callback_begin(s, Start("github_auth_del_comment", state, NULL, comment_id), user,
                   "check_auth")

github_auth_del_comment_auth(s) ==
    /\ req[s].kind = "github_auth_del_comment"
    /\ callback_check_auth(s, "delete")
    /\ UNCHANGED served

github_auth_del_comment_delete(s) ==
    LET r == req[s] IN
    /\ At(s, "github_auth_del_comment", "delete")
    /\ COMMENT' = try_delete_comment(COMMENT, r.comment_id, r.user.user_id)
    /\ Goto(s, [req[s] EXCEPT !.pc = "remove_rng"])
    /\ GITHUB_RNG' = IF COMMENT' # COMMENT THEN LogUsed(GITHUB_RNG, r.state, "deleted")
                                            ELSE GITHUB_RNG
    /\ UNCHANGED <<PSEUDO_COMMENT, now, issued, authed>>
    /\ UNCHANGED served

\* create_time.assume_offset(utc_offset).format(&format)
format_date(t) == "T" \o ToString(t)

\* struct Comment, built from a row of the SELECT.
CommentOf(c) ==
    [ comment_id |-> c.uuid, username |-> c.username, userurl |-> c.userurl,
      useravatar |-> c.useravatar, create_date |-> format_date(c.creation_date),
      edit_date |-> format_date(c.edit_date), comment |-> c.comment ]

\* The orders ORDER BY creation_date can return rows in (rows of one
\* creation_date come in any order).
OrderByCreationDate(rows) ==
    { f \in [1..Cardinality(rows) -> rows] :
        \A i, j \in 1..Cardinality(rows) :
            i < j => f[i] # f[j] /\ f[i].creation_date <= f[j].creation_date }

\* get_comments_per_blog_id without its WHERE clause.
get_comments_per_blog_id_every_post(rows, blog_id) ==
    { [i \in DOMAIN f |-> CommentOf(f[i])] : f \in OrderByCreationDate(rows) }

\* SELECT ... FROM COMMENT WHERE blog_post_id = ? ORDER BY creation_date
get_comments_per_blog_id(rows, blog_id) ==
    { [i \in DOMAIN f |-> CommentOf(f[i])] :
        f \in OrderByCreationDate({c \in rows : c.blog_post_id = blog_id}) }

get_comments_by_blog_id(s, blog_id) ==
    LET r == Start("get_comments_by_blog_id", NULL, blog_id, NULL) IN
    /\ Free(s)
    /\ Accept
    /\ \E comments \in get_comments_per_blog_id(COMMENT, blog_id) :
          Answer(s, [r EXCEPT !.comments = comments], OK)
    /\ UNCHANGED <<GITHUB_RNG, PSEUDO_COMMENT, COMMENT, now, issued, authed>>

\* A statement or a connection (Pool::new, get_conn) that fails ends the
\* handler with Error::Mysql.
store_error(s) ==
    /\ ~Free(s)
    /\ Answer(s, req[s], INTERNAL_SERVER_ERROR)
    /\ UNCHANGED <<GITHUB_RNG, PSEUDO_COMMENT, COMMENT, now, issued, authed>>
    /\ UNCHANGED served

\* Time passes.
Tick ==
    /\ now < MaxTicks * TickMinutes
    /\ now' = now + TickMinutes
    /\ resp' = NoResponse
    /\ UNCHANGED <<GITHUB_RNG, PSEUDO_COMMENT, COMMENT, req, issued, authed>>
    /\ UNCHANGED served

\* The state after main has run set_up_sql_db on a store whose COMMENT table
\* holds the rows given (CREATE TABLE IF NOT EXISTS keeps what an earlier run
\* published; an empty set is a fresh database).
InitWith(comments) ==
    /\ GITHUB_RNG = {}
    /\ PSEUDO_COMMENT = {}
    /\ COMMENT = comments
    /\ now = 0
    /\ req = [s \in Slots |-> Idle]
    /\ resp = NoResponse
    /\ issued = {}
    /\ authed = {}
    /\ served = 0

Init == InitWith({})

\* The row add_comment publishes at time t for identity user on blog_post_id:
\* what an earlier run of the create flow has left in COMMENT.
Published(blog_post_id, user, comment, t) ==
    CommentRow(new_v5(combined(blog_post_id, user.user_id, t)),
               Selected(PseudoRow(NULL, NULL, user, blog_post_id, NULL, t)), comment, t)

\* The handlers of the create flow, run in the slots S with the inputs given.
CreateFlow(S, bids, tokens, users, texts) ==
    \/ \E s \in S, blog_id \in bids, blog_url \in BlogUrls :
            login_to_comment(s, blog_id, blog_url)
    \/ \E s \in S, blog_id \in bids, state \in tokens, user \in users :
            github_auth_make_comment(s, blog_id, state, user)
    \/ \E s \in S : github_auth_make_comment_bind(s)
    \/ \E s \in S, state \in tokens : submit_comment(s, state)
    \/ \E s \in S : add_comment_check(s)
    \/ \E s \in S, comment \in texts : add_comment_insert(s, comment)

EditFlow(S, tokens, users, texts) ==
    \/ \E s \in S, comment_id \in CommentIds : login_to_edit_comment(s, comment_id)
    \/ \E s \in S, comment_id \in CommentIds, state \in tokens, user \in users :
            github_auth_edit_comment(s, comment_id, state, user)
    \/ \E s \in S : github_auth_edit_comment_auth(s)
    \/ \E s \in S : github_auth_edit_comment_bind(s)
    \/ \E s \in S, state \in tokens : submit_edit_comment(s, state)
    \/ \E s \in S, comment \in texts : edit_comment_write(s, comment)
    \/ \E s \in S : delete_pseudo(s)

DeleteFlow(S, tokens, users) ==
    \/ \E s \in S, comment_id \in CommentIds : login_to_delete_comment(s, comment_id)
    \/ \E s \in S, comment_id \in CommentIds, state \in tokens, user \in users :
            github_auth_del_comment(s, comment_id, state, user)
    \/ \E s \in S : github_auth_del_comment_auth(s)
    \/ \E s \in S : github_auth_del_comment_delete(s)

\* The last statement of the finalizing handlers, and a failing store.
Finish(S) ==
    \/ \E s \in S : remove_rng(s)
    \/ \E s \in S : store_error(s)

\* Time passes, and the handlers asleep in add_comment wake up.
Clock(S) ==
    \/ Tick
    \/ \E s \in S : add_comment_retry(s)

\* The whole server: every handler, every input, in every slot.
Next ==
    \/ CreateFlow(Slots, BlogIds, Tokens, Identities \cup {NoUser}, Texts)
    \/ \E s \in Slots : delete_pseudo(s)
    \/ EditFlow(Slots, Tokens, Identities \cup {NoUser}, Texts)
    \/ DeleteFlow(Slots, Tokens, Identities \cup {NoUser})
    \/ Finish(Slots)
    \/ Clock(Slots)

Spec == Init /\ [][Next]_vars

\* The three OAuth callbacks.
CallbackKinds ==
    {"github_auth_make_comment", "github_auth_edit_comment", "github_auth_del_comment"}

\* The users the scenarios below let GitHub resolve a login to.
Users == {U3, U23, NoUser}

\* The create flow for the allowed blog post on a fresh database, concurrent
\* requests, the clock running.
NextCreate ==
    \/ CreateFlow(Slots, allowed_bids, Tokens, Users, {"a"})
    \/ \E s \in Slots : delete_pseudo(s)
    \/ Finish(Slots)
    \/ Clock(Slots)

SpecCreate == Init /\ [][NextCreate]_vars

\* The create flow with a store that never fails a statement for a reason of
\* its own: whatever error a handler answers comes from what it asked for.
NextCreateSound ==
    \/ CreateFlow(Slots, allowed_bids, Tokens, Users, {"a"})
    \/ \E s \in Slots : delete_pseudo(s)
    \/ \E s \in Slots : remove_rng(s)
    \/ Clock(Slots)

SpecCreateSound == Init /\ [][NextCreateSound]_vars

\* A comment user 3 published on p1 within the current clock reading, and the
\* create flow of that same user on top of it: every id the flow derives at
\* that reading is taken.
Sooner == Published("p1", U3, "a", 0)

NextRetry ==
    \/ CreateFlow(Slots, allowed_bids, Tokens, {U3}, {"a"})
    \/ \E s \in Slots : delete_pseudo(s)
    \/ Finish(Slots)
    \/ Clock(Slots)

SpecRetry == InitWith({Sooner}) /\ [][NextRetry]_vars

\* A begin request beyond those the bound counts: clients keep asking for
\* tokens for as long as the server runs.
keep_arriving(s) ==
    /\ Free(s)
    /\ served = MaxRequests
    /\ \/ create_rng_uuid(s, Start("login_to_comment", NULL, "p1", NULL))
       \/ create_rng_uuid(s, Start("login_to_edit_comment", NULL, NULL, "nocomment"))
    /\ UNCHANGED served

\* The create flow of one user with one token, and begin requests without end.
NextReclaim ==
    \/ CreateFlow(Slots, allowed_bids, {"t1"}, {U3}, {"a"})
    \/ \E s \in Slots : delete_pseudo(s)
    \/ Finish(Slots)
    \/ Clock(Slots)
    \/ \E s \in Slots : keep_arriving(s)

\* Every handler that has started goes on (the store answers each statement),
\* the clock runs on to its bound, and begin requests keep arriving.
FairReclaim ==
    /\ WF_vars(Tick)
    /\ \A s \in Slots :
          /\ WF_vars(github_auth_make_comment_bind(s))
          /\ WF_vars(add_comment_check(s))
          /\ WF_vars(add_comment_retry(s))
          /\ WF_vars(delete_pseudo(s))
          /\ WF_vars(remove_rng(s))
          /\ WF_vars(\E comment \in {"a"} : add_comment_insert(s, comment))
          /\ WF_vars(keep_arriving(s)
                       \/ \E blog_url \in BlogUrls : login_to_comment(s, "p1", blog_url))

SpecReclaim == Init /\ [][NextReclaim]_vars /\ FairReclaim

\* A comment of user 23 published by an earlier run.
Earlier == Published("p1", U23, "a", 0)

\* The edit and delete flows on that comment, concurrent requests.
NextModify ==
    \/ EditFlow(Slots, Tokens, Users, {"b"})
    \/ DeleteFlow(Slots, Tokens, Users)
    \/ Finish(Slots)

SpecModify == InitWith({Earlier}) /\ [][NextModify]_vars

\* An older comment of the same user.
Older == Published("p1", U23, "a", 0 - TickMinutes)

\* The delete flow on the two comments, concurrent requests.
NextDelete ==
    \/ DeleteFlow(Slots, Tokens, Users)
    \/ Finish(Slots)

SpecDelete == InitWith({Earlier, Older}) /\ [][NextDelete]_vars

\* sql::add_pseudo_comment_data on its own, called with every combination of
\* its two optional arguments.
NextBind ==
    \/ \E s \in Slots, state \in Tokens, user \in {U23},
          blog_post_id \in {NULL, "p1"}, comment_id \in {NULL, Earlier.uuid} :
            call_add_pseudo_comment_data(s, state, user, blog_post_id, comment_id)
    \/ \E s \in Slots : call_add_pseudo_comment_data_run(s)
    \/ Tick

SpecBind == InitWith({Earlier}) /\ [][NextBind]_vars

\* The callbacks with their OAuth round trips spelled out, on the comment of
\* the earlier run, one request at a time; GitHub answers for user 23 with
\* any of the profiles.
NextOAuth ==
    \/ \E s \in {1} : login_to_edit_comment(s, Earlier.uuid)
    \/ \E s \in {1}, state \in {"t1"} :
          \/ callback_recv(s, Start("github_auth_make_comment", state, "p1", NULL))
          \/ callback_recv(s, Start("github_auth_edit_comment", state, NULL, Earlier.uuid))
          \/ callback_recv(s, Start("github_auth_del_comment", state, NULL, Earlier.uuid))
    \/ \E s \in {1}, access_token \in BOOLEAN : callback_exchange(s, access_token)
    \/ \E s \in {1}, ret \in FetchResults : callback_fetch(s, ret)
    \/ \E s \in {1}, user_info \in Profiles : callback_parse(s, user_info)
    \/ \E s \in {1} : github_auth_make_comment_bind(s)
    \/ \E s \in {1} : github_auth_edit_comment_auth(s)
    \/ \E s \in {1} : github_auth_edit_comment_bind(s)
    \/ \E s \in {1} : github_auth_del_comment_auth(s)
    \/ \E s \in {1} : github_auth_del_comment_delete(s)
    \/ \E s \in {1} : remove_rng(s)

SpecOAuth == InitWith({Earlier}) /\ [][NextOAuth]_vars

\* The create flow of one user with one token, the requests carrying any
\* blog_id a client can put into the query.
NextCreateAnyBid ==
    \/ CreateFlow(Slots, BlogIds, {"t1"}, {U3}, {"a"})
    \/ \E s \in Slots : delete_pseudo(s)
    \/ Finish(Slots)
    \/ Clock(Slots)

SpecCreateAnyBid == Init /\ [][NextCreateAnyBid]_vars

\* The edit and delete flows of user 23 with one token on the two comments,
\* concurrent requests.
NextEdit ==
    \/ EditFlow(Slots, {"t1"}, {U23}, {"b"})
    \/ DeleteFlow(Slots, {"t1"}, {U23})
    \/ Finish(Slots)

SpecEdit == InitWith({Earlier, Older}) /\ [][NextEdit]_vars

\* The create flow of user 3 on top of the older comment, the callback
\* carrying any blog_id, and the listing of either post at any moment.
NextListing ==
    \/ CreateFlow(Slots, BlogIds, {"t1"}, {U3}, {"a"})
    \/ \E s \in Slots : delete_pseudo(s)
    \/ Finish(Slots)
    \/ Tick
    \/ \E s \in Slots, blog_id \in BlogIds : get_comments_by_blog_id(s, blog_id)

SpecListing == InitWith({Older}) /\ [][NextListing]_vars

\* Every flow, one request at a time.
NextSerial ==
    \/ CreateFlow({1}, {"p1"}, Tokens, Users, {"a"})
    \/ EditFlow({1}, Tokens, Users, {"b"})
    \/ DeleteFlow({1}, Tokens, Users)
    \/ Finish({1})

SpecSerial == InitWith({Earlier}) /\ [][NextSerial]_vars

\* ------------------------------------------------------------- claims
\* C1: of the identity-bind callbacks that carry one correlation token with
\* different identities at most one succeeds: while the token is within its
\* window and GITHUB_RNG holds it, no bind stores an identity for it once
\* an earlier bind has bound it to another identity.
C1_OneBindPerToken ==
    [][\A p \in PSEUDO_COMMENT' \ PSEUDO_COMMENT :
          \A r \in GITHUB_RNG :
              r.uuid = p.state /\ now - r.date <= ExpiryMinutes
                  => r.bound \in {0, p.user_id}]_vars

\* C2: two submit_comment requests that race on one correlation token
\* never both publish: the INSERT of add_comment adds a COMMENT row only for
\* a token no request has published with before.
C2_OnePublishPerToken ==
    [][\A s \in Slots :
          At(s, "submit_comment", "insert") /\ req'[s].pc = "delete_pseudo"
              => \A r \in GITHUB_RNG : r.uuid = req[s].state => r.used = NULL]_vars

\* C3: an edit callback by an identity that does not own the comment binds
\* nothing: its ownership check answers 400 Bad Request and leaves
\* PSEUDO_COMMENT and COMMENT as they are, and no bind ever links a token to
\* a published comment of another user.
C3_EditBindNeedsOwner ==
    [][/\ \A s \in Slots :
            /\ At(s, "github_auth_edit_comment", "check_auth")
            /\ req'[s] # req[s]
            /\ \E c \in COMMENT : c.uuid = req[s].comment_id
                                  /\ c.user_id # req[s].user.user_id
            => /\ req'[s] = Idle
               /\ resp'.status \in {BAD_REQUEST, INTERNAL_SERVER_ERROR}
               /\ PSEUDO_COMMENT' = PSEUDO_COMMENT
               /\ COMMENT' = COMMENT
       /\ \A p \in PSEUDO_COMMENT' \ PSEUDO_COMMENT :
            \A c \in COMMENT : c.uuid = p.comment_id => c.user_id = p.user_id]_vars

\* C3 witness: user 3 has been refused, at the ownership check, the edit of
\* the comment of user 23, with a token that was issued.
C3_Witness ==
    /\ resp.kind = "github_auth_edit_comment"
    /\ resp.pc = "check_auth"
    /\ resp.status = BAD_REQUEST
    /\ resp.user_id = U3.user_id
    /\ resp.state \in issued
    /\ \E c \in COMMENT : c.uuid = resp.comment_id /\ c.user_id = U23.user_id

\* C4: the delete statement is conditioned on the comment id and on the
\* owner: every COMMENT row that disappears is removed by the delete
\* statement of a github_auth_del_comment request, carries the comment id
\* that request names and belongs to the identity GitHub resolved for it.
C4_DeleteOnlyOwnRow ==
    [][\A c \in COMMENT \ COMMENT' :
          \E s \in Slots :
              /\ At(s, "github_auth_del_comment", "delete")
              /\ req'[s].pc = "remove_rng"
              /\ c.uuid = req[s].comment_id
              /\ c.user_id = req[s].user.user_id]_vars

\* C4 witness: user 23 has deleted one of their two comments and the other
\* is still there.
C4_Witness ==
    \E s \in Slots :
        /\ At(s, "github_auth_del_comment", "remove_rng")
        /\ req[s].user.user_id = U23.user_id
        /\ req[s].comment_id = Earlier.uuid
        /\ COMMENT = {Older}

\* C5: the ownership gate precedes every edit-finalize and every delete.  A
\* COMMENT row that the UPDATE of edit_comment changes, or that the delete
\* flow removes, belongs at that moment to the identity the request acts
\* for, and check_edit_comment_auth has returned true for the request's
\* token, that comment and that identity before; a check that returns false
\* ends the callback with 400 Bad Request and changes no table.
C5_GateBeforeWrite ==
    [][/\ \A c \in COMMENT \ COMMENT' :
            \E s \in Slots :
                \/ /\ At(s, "submit_edit_comment", "update")
                   /\ req'[s].pc = "delete_pseudo"
                   /\ c.uuid = req[s].pseudo_comment.comment_id
                   /\ c.user_id = req[s].pseudo_comment.user_id
                   /\ <<req[s].state, c.uuid, c.user_id>> \in authed
                \/ /\ At(s, "github_auth_del_comment", "delete")
                   /\ req'[s].pc = "remove_rng"
                   /\ c.uuid = req[s].comment_id
                   /\ c.user_id = req[s].user.user_id
                   /\ <<req[s].state, c.uuid, c.user_id>> \in authed
       /\ \A s \in Slots :
            /\ req[s].pc = "check_auth"
            /\ req'[s] # req[s]
            /\ ~check_edit_comment_auth(COMMENT, req[s].comment_id, req[s].user.user_id)
            => /\ req'[s] = Idle
               /\ resp'.status \in {BAD_REQUEST, INTERNAL_SERVER_ERROR}
               /\ resp'.kind = req[s].kind
               /\ <<GITHUB_RNG', PSEUDO_COMMENT', COMMENT'>> = <<GITHUB_RNG, PSEUDO_COMMENT, COMMENT>>]_vars

\* C5 witness: submit_edit_comment has rewritten the body of the comment of
\* user 23 on the strength of an ownership check passed for its token.
C5_Witness ==
    \E s \in Slots :
        /\ At(s, "submit_edit_comment", "delete_pseudo")
        /\ <<req[s].state, Earlier.uuid, U23.user_id>> \in authed
        /\ \E c \in COMMENT : c.uuid = Earlier.uuid /\ c.comment = "b"

\* C6: check_rng_uuid finds a token right after create_rng_uuid has
\* returned it, and no longer finds it once more than the 60-minute window
\* has passed since it was issued: a callback gets past its token check
\* only with a token whose GITHUB_RNG row is at most 60 minutes old.
C6_TokenWindow ==
    [][/\ resp'.kind = "login_to_comment" /\ resp'.status = OK
            => check_rng_uuid(Reap(GITHUB_RNG', now'), resp'.state)
       /\ \A s \in Slots :
            Free(s) /\ req'[s].kind \in CallbackKinds
                => \E r \in GITHUB_RNG :
                       r.uuid = req'[s].state /\ now - r.date <= ExpiryMinutes
       /\ resp'.kind \in CallbackKinds /\ resp'.pc = "idle" /\ resp'.status # BAD_REQUEST
            => \E r \in GITHUB_RNG :
                   r.uuid = resp'.state /\ now - r.date <= ExpiryMinutes]_vars

\* C6 witness: a callback is refused a token that was issued, that no
\* finalize has removed, and that is older than the window.
C6_Witness ==
    /\ resp.kind = "github_auth_make_comment"
    /\ resp.pc = "idle"
    /\ resp.status = BAD_REQUEST
    /\ resp.state \in issued
    /\ COMMENT = {}
    /\ GITHUB_RNG = {}
    /\ now > ExpiryMinutes

\* C7: a finalize never reads or acts on a bound pending row older than the
\* window: the PSEUDO_COMMENT row that add_comment selects for the token of a
\* submit_comment request is at most 60 minutes old.
C7_FinalizeWithinWindow ==
    [][\A s \in Slots :
          Free(s) /\ req'[s].kind = "submit_comment" /\ req'[s].pc = "check_uuid"
              => \A p \in PSEUDO_COMMENT :
                     p.state = req'[s].state => now - p.date <= ExpiryMinutes]_vars

\* C8: a callback that carries a token create_rng_uuid never returned is
\* answered 400 Bad Request at its token check, writes no PSEUDO_COMMENT row
\* and leaves COMMENT alone; no callback goes on past the check with such a
\* token.
C8_UnknownTokenRejected ==
    [][/\ resp'.kind \in CallbackKinds /\ resp'.pc = "idle" /\ resp'.state \notin issued
            => /\ resp'.status = BAD_REQUEST
               /\ PSEUDO_COMMENT' = PSEUDO_COMMENT
               /\ COMMENT' = COMMENT
       /\ \A s \in Slots :
            req'[s].kind \in CallbackKinds => req'[s].state \in issued]_vars

\* C8 witness: the delete callback for the published comment has been
\* refused a token that was never issued.
C8_Witness ==
    /\ resp.kind = "github_auth_del_comment"
    /\ resp.pc = "idle"
    /\ resp.status = BAD_REQUEST
    /\ resp.state \notin issued
    /\ resp.comment_id = Earlier.uuid
    /\ Earlier \in COMMENT

\* C9: an edit bind for a comment succeeds only with the token that
\* login_to_edit_comment issued for that comment.
C9_EditTokenOfSameComment ==
    [][\A p \in PSEUDO_COMMENT' \ PSEUDO_COMMENT :
          p.comment_id # NULL
              => \A r \in GITHUB_RNG :
                     r.uuid = p.state
                         => r.issued_by = [kind |-> "login_to_edit_comment",
                                           comment_id |-> p.comment_id]]_vars

\* C10: a published comment has at most one live token issued for it and at
\* most one bound pending row.
C10_OneLiveTokenPerComment ==
    \A c \in COMMENT :
        /\ Cardinality({r \in GITHUB_RNG : r.issued_by.comment_id = c.uuid}) <= 1
        /\ Cardinality({p \in PSEUDO_COMMENT : p.comment_id = c.uuid}) <= 1

\* C11: the create path end to end, one request at a time.  The INSERT of
\* add_comment adds exactly one COMMENT row and touches no other: the row
\* carries the blog post, the user id and the name, profile and avatar of
\* the PSEUDO_COMMENT row bound to the token, and the submitted body; when
\* submit_comment answers 200 neither a PSEUDO_COMMENT row nor a GITHUB_RNG
\* row of the token is left.
C11_CreateEndToEnd ==
    [][/\ \A s \in Slots :
            At(s, "submit_comment", "insert") /\ req'[s].pc = "delete_pseudo"
                => /\ COMMENT \subseteq COMMENT'
                   /\ Cardinality(COMMENT' \ COMMENT) = 1
                   /\ \E p \in PSEUDO_COMMENT : \E c \in COMMENT' \ COMMENT :
                        /\ p.state = req[s].state
                        /\ c.blog_post_id = p.blog_post_id
                        /\ c.user_id = p.user_id
                        /\ c.username = p.username
                        /\ c.userurl = p.userurl
                        /\ c.useravatar = p.useravatar
                        /\ c.comment = "a"
                        /\ c.creation_date = now
       /\ resp'.kind = "submit_comment" /\ resp'.status = OK
            => /\ ~has_psuedo_commment_with_state(PSEUDO_COMMENT', resp'.state)
               /\ ~check_rng_uuid(GITHUB_RNG', resp'.state)
               /\ COMMENT' = COMMENT]_vars

\* C11 witness: submit_comment has answered 200 and the comment of user 3 on
\* post p1 with body a is published.
C11_Witness ==
    /\ resp.kind = "submit_comment"
    /\ resp.status = OK
    /\ resp.state \in issued
    /\ \E c \in COMMENT :
         /\ c.blog_post_id = "p1" /\ c.user_id = U3.user_id /\ c.username = U3.username
         /\ c.userurl = U3.userurl /\ c.useravatar = U3.useravatar /\ c.comment = "a"

\* C12: check_edit_comment_auth(cid, uid) is true exactly when COMMENT holds
\* a row with uuid = cid and user_id = uid: a callback goes on past its
\* ownership check only when there is such a row, and is answered 400 Bad
\* Request at the check only when there is none.
C12_AuthIffOwnedRow ==
    [][/\ \A s \in Slots :
            req[s].pc = "check_auth" /\ req'[s].pc \in {"add_pseudo", "delete"}
                => \E c \in COMMENT : /\ c.uuid = req[s].comment_id
                                      /\ c.user_id = req[s].user.user_id
       /\ resp'.pc = "check_auth" /\ resp'.status = BAD_REQUEST
            => ~ \E c \in COMMENT : /\ c.uuid = resp'.comment_id
                                    /\ c.user_id = resp'.user_id]_vars

\* C12 witness: user 23 is refused at the ownership check for a comment id
\* no comment has, while owning a published comment.
C12_Witness ==
    /\ resp.pc = "check_auth"
    /\ resp.status = BAD_REQUEST
    /\ resp.user_id = U23.user_id
    /\ resp.comment_id = "nocomment"
    /\ \E c \in COMMENT : c.user_id = U23.user_id

\* C13: a deleted comment stays deleted.  Once the delete statement has
\* removed the row of comment C, check_edit_comment_auth(C, u) is false for
\* every user u, and no step brings a comment id back into COMMENT, the
\* UPDATE of a pending edit-finalize bound to C included.
C13_DeletedStaysDeleted ==
    [][/\ {c.uuid : c \in COMMENT'} \subseteq {c.uuid : c \in COMMENT}
       /\ \A s \in Slots :
            /\ At(s, "github_auth_del_comment", "delete")
            /\ req'[s].pc = "remove_rng"
            /\ COMMENT' # COMMENT
            => \A u \in UserIds :
                   ~check_edit_comment_auth(COMMENT', req[s].comment_id, u)]_vars

\* C13 witness: the comment is deleted and the UPDATE of an edit-finalize
\* bound to it has run since.
C13_Witness ==
    \E s \in Slots :
        /\ At(s, "submit_edit_comment", "delete_pseudo")
        /\ req[s].pseudo_comment.comment_id = Earlier.uuid
        /\ COMMENT = {}

\* C14: a bind on the create path does not restart the deadline of the
\* pending action: a submit_comment request whose bound PSEUDO_COMMENT row is
\* within the window finds the token of that row within the window counted
\* from the time create_rng_uuid issued it.
C14_BindKeepsDeadline ==
    [][\A s \in Slots :
          Free(s) /\ req'[s].kind = "submit_comment" /\ req'[s].pc = "check_uuid"
              => \A p \in PSEUDO_COMMENT : \A r \in GITHUB_RNG :
                     /\ p.state = req'[s].state
                     /\ now - p.date <= ExpiryMinutes
                     /\ r.uuid = p.state
                     => now - r.date <= ExpiryMinutes]_vars

\* C15: login_to_edit_comment and login_to_delete_comment issue no token
\* for a comment id that no published comment has.
C15_BeginNeedsPublished ==
    [][/\ resp'.kind \in {"login_to_edit_comment", "login_to_delete_comment"}
       /\ ~ \E c \in COMMENT : c.uuid = resp'.comment_id
       => /\ resp'.status # OK
          /\ GITHUB_RNG' \subseteq GITHUB_RNG]_vars

\* C16: add_pseudo_comment_data inserts a row only for a call that supplies
\* exactly one of blog_post_id and comment_id.
C16_ExactlyOneTarget ==
    [][\A p \in PSEUDO_COMMENT' \ PSEUDO_COMMENT :
          (p.blog_post_id = NULL) # (p.comment_id = NULL)]_vars

\* C17: no two rows of a table share an id (GITHUB_RNG.uuid,
\* PSEUDO_COMMENT.uuid, PSEUDO_COMMENT.state, COMMENT.uuid), and every
\* insert comes after a lookup of its candidate id in the table it goes
\* into: no INSERT into GITHUB_RNG or PSEUDO_COMMENT is issued with an id
\* the table already holds, to be refused by the key.
C17_UniqueIdsLookedUp ==
    [][/\ \A r1, r2 \in GITHUB_RNG' : r1.uuid = r2.uuid => r1 = r2
       /\ \A p1, p2 \in PSEUDO_COMMENT' :
            p1.uuid = p2.uuid \/ p1.state = p2.state => p1 = p2
       /\ \A c1, c2 \in COMMENT' : c1.uuid = c2.uuid => c1 = c2
       /\ resp'.status = INTERNAL_SERVER_ERROR
            => resp'.kind # "login_to_comment" /\ resp'.pc # "add_pseudo"]_vars

\* C18: create_rng_uuid never fails on a drawn value that collides with a
\* live token: login_to_comment answers 200 whenever the blog id and url
\* are allowed, and the token it returns is none that GITHUB_RNG held
\* unexpired or that PSEUDO_COMMENT held bound.
C18_RerollOnLiveToken ==
    [][resp'.kind = "login_to_comment"
          => /\ resp'.status \in {OK, BAD_REQUEST}
             /\ resp'.status = OK
                  => /\ ~check_rng_uuid(Reap(GITHUB_RNG, now), resp'.state)
                     /\ ~has_psuedo_commment_with_state(PSEUDO_COMMENT, resp'.state)]_vars

\* C19: when the derived id is taken, add_comment derives it again from a
\* later timestamp and checks again, neither answering an error nor touching
\* the comment that holds the id; and it stops trying once it has collided
\* AttemptLimit times.
C19_RetryBounded ==
    [][\A s \in Slots :
         /\ At(s, "submit_comment", "check_uuid")
              /\ (\E c \in COMMENT : c.uuid = req[s].uuid_str)
              /\ req'[s] # req[s]
              /\ resp'.status # INTERNAL_SERVER_ERROR
              => /\ req'[s].pc = "sleep"
                 /\ COMMENT' = COMMENT
         /\ At(s, "submit_comment", "sleep") /\ req'[s].pc = "check_uuid"
              => /\ req'[s].at > req[s].at
                 /\ req'[s].uuid_str # req[s].uuid_str
                 /\ req[s].attempts < AttemptLimit]_vars

C21_OwnerImmutable ==
    [][\A c \in COMMENT : \A d \in COMMENT' :
          c.uuid = d.uuid
              => /\ d.user_id = c.user_id
                 /\ d.blog_post_id = c.blog_post_id
                 /\ d.creation_date = c.creation_date]_vars

\* The comment of the earlier run after an edit-finalize has rewritten it:
\* its text and display name are new, its owner, post and creation date are
\* the published ones.
C21_Witness ==
    \E c \in COMMENT :
        /\ c.uuid = Earlier.uuid
        /\ c.comment = "b"
        /\ c.user_id = Earlier.user_id
        /\ c.blog_post_id = Earlier.blog_post_id
        /\ c.creation_date = Earlier.creation_date
        /\ resp.kind = "submit_edit_comment" /\ resp.status = OK

\* A row of the table whose 60-minute window has elapsed.
Elapsed(rows, key, id) == \E r \in rows : r[key] = id /\ r.date < ReapCut(now)

\* C22: while begin requests keep arriving, every pending row whose window
\* has elapsed is eventually deleted, the unbound token in GITHUB_RNG and the
\* bound row in PSEUDO_COMMENT alike.
C22_EventuallyReclaimed ==
    /\ \A t \in Tokens :
          Elapsed(GITHUB_RNG, "uuid", t) ~> ~Elapsed(GITHUB_RNG, "uuid", t)
    /\ \A q \in PseudoUuids :
          Elapsed(PSEUDO_COMMENT, "uuid", q) ~> ~Elapsed(PSEUDO_COMMENT, "uuid", q)

\* The slot whose handler deletes the row of token state by name in this
\* step (DELETE ... WHERE uuid = ? / WHERE state = ?), not by age.
DeletesByName(pc, state) == \E s \in Slots : req[s].pc = pc /\ req[s].state = state

\* C23: the reap takes expired pending rows only.  A token or a bound row
\* that leaves its table without its own finalize deleting it is older than
\* 60 minutes, and the steps that reap (begin, callback, bind, token removal)
\* leave COMMENT as it is.
C23_ReapOnlyExpired ==
    [][/\ \A r \in GITHUB_RNG :
            (\A x \in GITHUB_RNG' : x.uuid # r.uuid)
                => now - r.date > ExpiryMinutes \/ DeletesByName("remove_rng", r.uuid)
       /\ \A p \in PSEUDO_COMMENT :
            (\A x \in PSEUDO_COMMENT' : x.uuid # p.uuid)
                => now - p.date > ExpiryMinutes \/ DeletesByName("delete_pseudo", p.state)
       /\ \/ \E r \in GITHUB_RNG :
                 now - r.date > ExpiryMinutes /\ \A x \in GITHUB_RNG' : x.uuid # r.uuid
          \/ \E p \in PSEUDO_COMMENT :
                 now - p.date > ExpiryMinutes /\ \A x \in PSEUDO_COMMENT' : x.uuid # p.uuid
          => COMMENT' = COMMENT]_vars

\* A begin request at 120 has reaped the token issued at 0 and kept the one
\* issued at 60: both tokens were issued, nothing was ever published (so no
\* finalize removed a token), and the younger one is the only row left.
C23_Witness ==
    /\ now = 2 * ExpiryMinutes
    /\ issued = Tokens
    /\ COMMENT = {}
    /\ resp.kind \in {"login_to_comment", "github_auth_make_comment"}
    /\ \E r \in GITHUB_RNG : GITHUB_RNG = {r} /\ now - r.date = ExpiryMinutes

\* C24: in each callback the code-for-token exchange is sent exactly once
\* and the identity fetch at least once and at most 3 times.  A fetch that
\* returns 2xx ends the loop with the profile; one that fails (transport
\* error or non-2xx) is followed by another fetch when it was the first or
\* the second, and by the fatal error when it was the third.
C24_FetchAtMostThrice ==
    [][\A s \in Slots :
         /\ req'[s].posts <= 1
         /\ req'[s].pc \in {"fetch", "parse"} => req'[s].posts = 1
         /\ req'[s].pc = "parse" => req'[s].idx >= 1
         /\ req[s].pc = "fetch" /\ req'[s] # req[s]
              => /\ req[s].idx < 3
                 /\ req'[s].pc \in {"parse", "fetch", "idle"}
                 /\ req'[s].pc = "parse"
                      => req'[s].ret = "2xx" /\ req'[s].idx = req[s].idx + 1
                 /\ req'[s].pc = "fetch"
                      => /\ req'[s].ret \in {"non2xx", "transport"}
                         /\ req'[s].idx = req[s].idx + 1
                         /\ req'[s].idx < 3
                 /\ req'[s].pc = "idle"
                      => /\ resp'.status = INTERNAL_SERVER_ERROR
                         /\ req[s].idx = 2]_vars

\* A callback that has its profile from the third fetch, after two that
\* failed and one exchange.
C24_Witness ==
    \E s \in Slots :
        /\ req[s].kind \in CallbackKinds
        /\ req[s].pc = "parse"
        /\ req[s].idx = 3
        /\ req[s].ret = "2xx"
        /\ req[s].posts = 1

\* C25: the display name bound is the profile's "name" when that is a
\* string and its "login" otherwise; a profile without a string name and
\* without a login takes the callback no further than the profile: it ends
\* in an error and binds nothing.
C25_NameThenLogin ==
    [][\A s \in Slots :
         LET ui == req'[s].user_info
             before == req[s].user_info
         IN /\ req[s].pc = "parse" /\ req[s].kind # "github_auth_del_comment"
                 /\ req'[s] # req[s]
                 => IF req'[s].pc = "idle"
                      THEN /\ resp'.status = INTERNAL_SERVER_ERROR
                           /\ PSEUDO_COMMENT' = PSEUDO_COMMENT
                      ELSE /\ ~(ui.name \in {Absent, JsonNull} /\ ui.login = Absent)
                           /\ req'[s].user.username =
                                 IF ui.name \in {Absent, JsonNull} THEN ui.login ELSE ui.name
            /\ req[s].pc = "add_pseudo"
                 => \A p \in PSEUDO_COMMENT' \ PSEUDO_COMMENT :
                       p.state = req[s].state
                           => p.username = IF before.name \in {Absent, JsonNull}
                                             THEN before.login ELSE before.name]_vars

\* A callback has bound user 23 under the login, its profile having no name.
C25_Witness ==
    /\ resp.kind \in {"github_auth_make_comment", "github_auth_edit_comment"}
    /\ resp.status = OK
    /\ \E p \in PSEUDO_COMMENT : p.state = resp.state /\ p.username = "b23"

\* C26: a request whose token is unknown or expired is answered 400 in every
\* handler: a callback whose token GITHUB_RNG does not hold, and a
\* submit_comment or submit_edit_comment whose token has no bound row.
C26_UnknownTokenIs400 ==
    [][/\ resp'.kind \in CallbackKinds /\ resp'.pc = "idle"
            /\ ~check_rng_uuid(Reap(GITHUB_RNG, now), resp'.state)
            => resp'.status = BAD_REQUEST
       /\ resp'.kind \in {"submit_comment", "submit_edit_comment"} /\ resp'.pc = "idle"
            /\ ~has_psuedo_commment_with_state(PSEUDO_COMMENT, resp'.state)
            => resp'.status = BAD_REQUEST]_vars

\* C27: a correlation token authorizes at most one mutation: a request that
\* publishes, edits or deletes a comment carries a token with which no
\* request has written to COMMENT before.
C27_OneMutationPerToken ==
    [][\A s \in Slots :
         LET r == req[s]
             mutates ==
                \/ /\ At(s, "submit_comment", "insert")
                   /\ req'[s].pc = "delete_pseudo"
                \/ /\ At(s, "submit_edit_comment", "update")
                   /\ req'[s].pc = "delete_pseudo"
                   /\ \E c \in COMMENT : c.uuid = r.pseudo_comment.comment_id
                \/ /\ At(s, "github_auth_del_comment", "delete")
                   /\ req'[s].pc = "remove_rng"
                   /\ check_edit_comment_auth(COMMENT, r.comment_id, r.user.user_id)
         IN mutates => \A g \in GITHUB_RNG : g.uuid = r.state => g.used = NULL]_vars

\* C28: a successful finalize consumes its token: when submit_comment or
\* submit_edit_comment answers 200 for token T, neither GITHUB_RNG nor
\* PSEUDO_COMMENT holds a row for T, so that no later request with T finds
\* anything to act on.
C28_FinalizeConsumesToken ==
    [][resp'.kind \in {"submit_comment", "submit_edit_comment"} /\ resp'.status = OK
          => /\ ~check_rng_uuid(GITHUB_RNG', resp'.state)
             /\ ~has_psuedo_commment_with_state(PSEUDO_COMMENT', resp'.state)]_vars

\* C29: the token does not carry a request across the two paths.  add_comment
\* goes on, and publishes, only with a bound row of the create path
\* (blog_post_id, no comment_id); edit_comment goes on, and modifies a
\* comment, only with a bound row of the edit path (comment_id, no
\* blog_post_id).
C29_PathsNotConfused ==
    [][\A s \in Slots :
         /\ Free(s) /\ req'[s].kind = "submit_comment"
              => \A p \in PSEUDO_COMMENT :
                    p.state = req'[s].state
                        => p.blog_post_id # NULL /\ p.comment_id = NULL
         /\ Free(s) /\ req'[s].kind = "submit_edit_comment"
              => \A p \in PSEUDO_COMMENT :
                    p.state = req'[s].state
                        => p.comment_id # NULL /\ p.blog_post_id = NULL
         /\ At(s, "submit_comment", "insert") /\ COMMENT' # COMMENT
              => /\ req[s].pseudo_comment.blog_post_id # NULL
                 /\ req[s].pseudo_comment.comment_id = NULL
         /\ At(s, "submit_edit_comment", "update") /\ COMMENT' # COMMENT
              => /\ req[s].pseudo_comment.comment_id # NULL
                 /\ req[s].pseudo_comment.blog_post_id = NULL]_vars

\* submit_comment has been sent with a token bound on the edit path and has
\* ended without an answer; the comment of the earlier run is all there is.
C29_Witness ==
    /\ resp.kind = "submit_comment"
    /\ resp.status = Panicked
    /\ \E p \in PSEUDO_COMMENT :
          p.state = resp.state /\ p.comment_id # NULL /\ p.blog_post_id = NULL
    /\ COMMENT = {Earlier}

\* C30: every published comment belongs to an allowed blog post, whatever
\* blog_id the begin request and the callback request carry.
C30_PublishedOnAllowedPost ==
    \A c \in COMMENT : is_allowed_bid(c.blog_post_id)

\* C31: add_comment is all-or-nothing.  When submit_comment has been
\* answered for token T, whatever the answer, the store does not hold both
\* a comment published with T and a bound row for T that a further
\* submit_comment could use.
C31_PublishAllOrNothing ==
    [][resp'.kind = "submit_comment" /\ resp'.status # NoStatus
          => ~ /\ \E g \in GITHUB_RNG' : g.uuid = resp'.state /\ g.used = "published"
               /\ has_psuedo_commment_with_state(PSEUDO_COMMENT', resp'.state)]_vars

\* C32: a callback whose code exchange or identity fetch fails leaves the
\* store as it found it, the reap aside: its token check does nothing but
\* reap GITHUB_RNG, the exchange and the fetches touch no table, and when
\* the callback ends in the error its token is still in GITHUB_RNG.
C32_FailedOAuthLeavesStore ==
    [][\A s \in Slots :
         /\ Free(s) /\ req'[s].pc = "exchange"
              => /\ GITHUB_RNG' = Reap(GITHUB_RNG, now)
                 /\ UNCHANGED <<PSEUDO_COMMENT, COMMENT>>
         /\ req[s].pc \in {"exchange", "fetch"} /\ req'[s] # req[s]
              => /\ UNCHANGED <<GITHUB_RNG, PSEUDO_COMMENT, COMMENT>>
                 /\ req'[s].pc = "idle"
                      => /\ resp'.status = INTERNAL_SERVER_ERROR
                         /\ check_rng_uuid(GITHUB_RNG', resp'.state)]_vars

\* The edit callback for the comment of the earlier run has ended in the
\* error of the third failed fetch; the token is there, nothing is bound and
\* the comment is as it was.
C32_Witness ==
    /\ resp.kind = "github_auth_edit_comment"
    /\ resp.pc = "fetch"
    /\ resp.status = INTERNAL_SERVER_ERROR
    /\ check_rng_uuid(GITHUB_RNG, resp.state)
    /\ PSEUDO_COMMENT = {}
    /\ COMMENT = {Earlier}

\* C33: the UPDATE of edit_comment touches one comment at most, the one the
\* bound row names, and of it only the body, edit_date and the identity
\* snapshot: the ids in COMMENT stay the same (none is created, not even
\* when the target has been deleted since the bind), every other row stays
\* as it is, and the target keeps its post, owner and creation date.
C33_EditFrame ==
    [][\A s \in Slots :
         At(s, "submit_edit_comment", "update") /\ req'[s].pc = "delete_pseudo"
            => LET target == req[s].pseudo_comment.comment_id IN
               /\ {c.uuid : c \in COMMENT'} = {c.uuid : c \in COMMENT}
               /\ Cardinality(COMMENT') = Cardinality(COMMENT)
               /\ \A c \in COMMENT : c.uuid # target => c \in COMMENT'
               /\ \A c \in COMMENT : \A d \in COMMENT' :
                     c.uuid = target /\ d.uuid = target
                         => /\ d.blog_post_id = c.blog_post_id
                            /\ d.user_id = c.user_id
                            /\ d.creation_date = c.creation_date]_vars

\* The UPDATE of an edit-finalize has run for the comment of the earlier
\* run after a delete callback took that comment away: the older comment is
\* all there is, as it was.
C33_Witness ==
    \E s \in Slots :
        /\ At(s, "submit_edit_comment", "delete_pseudo")
        /\ req[s].pseudo_comment.comment_id = Earlier.uuid
        /\ COMMENT = {Older}

\* C34: the edit callback, from its token check to its bind, leaves COMMENT
\* as it is: body, identity snapshot, creation_date and edit_date of the
\* comment change at the edit-finalize, never at bind time.
C34_BindLeavesComment ==
    [][\A s \in Slots :
         /\ req'[s] # req[s]
         /\ \/ req[s].kind = "github_auth_edit_comment"
            \/ req'[s].kind = "github_auth_edit_comment"
            \/ resp'.kind = "github_auth_edit_comment"
         => COMMENT' = COMMENT]_vars

\* The edit callback has bound user 23, whose display name is by now the
\* login, for the comment of the earlier run; the comment still shows what
\* it was published with.
C34_Witness ==
    /\ resp.kind = "github_auth_edit_comment"
    /\ resp.pc = "add_pseudo"
    /\ resp.status = OK
    /\ \E p \in PSEUDO_COMMENT :
          /\ p.state = resp.state
          /\ p.comment_id = Earlier.uuid
          /\ p.username # Earlier.username
    /\ COMMENT = {Earlier}

\* C35: login_to_comment answers 400 and leaves the store as it is when
\* blog_url starts with none of the allowed_urls or blog_id is none of the
\* allowed_bids; otherwise it inserts exactly one new token row, whose token
\* is the state it answers with.
C35_TokenOnlyForAllowed ==
    [][resp'.kind = "login_to_comment"
          => IF is_allowed_url(resp'.blog_url) /\ is_allowed_bid(resp'.blog_id)
               THEN /\ resp'.status = OK
                    /\ ~check_rng_uuid(Reap(GITHUB_RNG, now), resp'.state)
                    /\ {g.uuid : g \in GITHUB_RNG'}
                          = {g.uuid : g \in Reap(GITHUB_RNG, now)} \cup {resp'.state}
               ELSE /\ resp'.status = BAD_REQUEST
                    /\ UNCHANGED <<GITHUB_RNG, PSEUDO_COMMENT, COMMENT>>]_vars

\* C36: the listing of post b holds exactly the COMMENT rows whose
\* blog_post_id is b, each once and as COMMENT holds it, in the order of
\* their creation dates; what is only issued (GITHUB_RNG) or bound
\* (PSEUDO_COMMENT) is in no listing.
C36_ListingIsPublished ==
    [][resp'.kind = "get_comments_by_blog_id" /\ resp'.status = OK
          => LET L == resp'.comments
                 of_post == {c \in COMMENT : c.blog_post_id = resp'.blog_id}
                 row(i) == CHOOSE c \in of_post : c.uuid = L[i].comment_id
             IN /\ Len(L) = Cardinality(of_post)
                /\ {L[i].comment_id : i \in DOMAIN L} = {c.uuid : c \in of_post}
                /\ \A i \in DOMAIN L :
                      /\ L[i].comment = row(i).comment
                      /\ L[i].username = row(i).username
                      /\ L[i].comment_id \notin {p.uuid : p \in PSEUDO_COMMENT}
                      /\ L[i].comment_id \notin {g.uuid : g \in GITHUB_RNG}
                /\ \A i, j \in DOMAIN L :
                      i < j => row(i).creation_date <= row(j).creation_date]_vars

\* The listing of p1 has been answered with the older comment alone while
\* COMMENT also holds a comment of another post and a token is bound.
C36_Witness ==
    /\ resp.kind = "get_comments_by_blog_id"
    /\ resp.blog_id = "p1"
    /\ Len(resp.comments) = 1
    /\ resp.comments[1].comment_id = Older.uuid
    /\ \E c \in COMMENT : c.blog_post_id = "p12"
    /\ PSEUDO_COMMENT # {}

\* ------------------------------------------------------------ config.rs
\* A String is the sequence of its bytes; a run of bytes none of which is
\* '=', '\n' or '\r' nor a digit of a port is written as one element.
EQ == "="
LF == "\n"
CR == "\r"

Digits == <<"0", "1", "2", "3", "4", "5", "6", "7", "8", "9">>
DigitValue(c) == (CHOOSE i \in DOMAIN Digits : Digits[i] = c) - 1
IsDigit(c) == \E i \in DOMAIN Digits : Digits[i] = c

Ok(v) == [ok |-> TRUE, val |-> v]
Err(e) == [ok |-> FALSE, err |-> e]

RECURSIVE from_digits(_, _)
\* The checked accumulation of str::parse::<u16>: result * 10 + digit, an
\* overflow of the 16 bits being an error.
from_digits(acc, digits) ==
    IF digits = <<>> THEN Ok(acc)
    ELSE IF ~IsDigit(Head(digits)) THEN Err("ParseIntError")
    ELSE IF acc * 10 + DigitValue(Head(digits)) > 65535 THEN Err("ParseIntError")
    ELSE from_digits(acc * 10 + DigitValue(Head(digits)), SubSeq(digits, 2, Len(digits)))

\* val.parse::<u16>(): an optional '+', then at least one digit.
parse_u16(val) ==
    LET digits == IF val # <<>> /\ Head(val) = "+" THEN SubSeq(val, 2, Len(val)) ELSE val IN
    IF digits = <<>> THEN Err("ParseIntError") ELSE from_digits(0, digits)

\* The locals of try_from before the first byte is read.
try_from_locals(file) ==
    [ kind |-> "try_from", pc |-> "bytes", file |-> file, pos |-> 1,
      key |-> <<>>, val |-> <<>>, is_parsing_key |-> TRUE,
      sql_user |-> Err("sql_user not specified!"),
      sql_pass |-> Err("sql_pass not specified!"),
      sql_addr |-> Err("sql_addr not specified!"),
      sql_port |-> Err("sql_port not specified!"),
      sql_db |-> Err("sql_db not specified!"),
      tcp_addr |-> <<"127.0.0.1">>,
      tcp_port |-> 8000,
      oauth_user |-> Err("oauth_user not specified!"),
      oauth_token |-> Err("oauth_token not specified!"),
      base_url |-> Err("base_url not specified!"),
      allowed_urls |-> <<>>,
      allowed_bids |-> <<>>,
      user_agent |-> Err("user_agent not specified!"),
      on_comment_cmds |-> <<>>,
      admins |-> <<>>,
      ret |-> NULL ]

\* The chain of if / else if on key, written twice in try_from: the value
\* goes to the local of its key; a tcp_port that does not parse returns.
store_key_val(l) ==
    LET key == l.key
        val == l.val
    IN  IF key = <<"sql_user">> THEN [l EXCEPT !.sql_user = Ok(val)]
        ELSE IF key = <<"sql_pass">> THEN [l EXCEPT !.sql_pass = Ok(val)]
        ELSE IF key = <<"sql_addr">> THEN [l EXCEPT !.sql_addr = Ok(val)]
        ELSE IF key = <<"sql_port">> THEN [l EXCEPT !.sql_port = Ok(val)]
        ELSE IF key = <<"sql_db">> THEN [l EXCEPT !.sql_db = Ok(val)]
        ELSE IF key = <<"tcp_addr">> THEN [l EXCEPT !.tcp_addr = val]
        ELSE IF key = <<"tcp_port">> THEN
            IF parse_u16(val).ok THEN [l EXCEPT !.tcp_port = parse_u16(val).val]
            ELSE [l EXCEPT !.pc = "returned", !.ret = parse_u16(val)]
        ELSE IF key = <<"oauth_user">> THEN [l EXCEPT !.oauth_user = Ok(val)]
        ELSE IF key = <<"oauth_token">> THEN [l EXCEPT !.oauth_token = Ok(val)]
        ELSE IF key = <<"base_url">> THEN [l EXCEPT !.base_url = Ok(val)]
        ELSE IF key = <<"allowed_url">> THEN [l EXCEPT !.allowed_urls = Append(@, val)]
        ELSE IF key = <<"allowed_bid">> THEN [l EXCEPT !.allowed_bids = Append(@, val)]
        ELSE IF key = <<"user_agent">> THEN [l EXCEPT !.user_agent = Ok(val)]
        ELSE IF key = <<"on_comment_cmd">> THEN [l EXCEPT !.on_comment_cmds = Append(@, val)]
        ELSE IF key = <<"admin">> THEN [l EXCEPT !.admins = Append(@, val)]
        ELSE l

\* One pass of the loop over file_buffered.bytes().
read_byte(l) ==
    LET c == l.file[l.pos]
        next == [l EXCEPT !.pos = @ + 1]
    IN  IF c = CR THEN next
        ELSE IF l.is_parsing_key THEN
            IF c = EQ THEN [next EXCEPT !.is_parsing_key = FALSE]
            ELSE [next EXCEPT !.key = Append(@, c)]
        ELSE IF c = LF THEN
            LET stored == store_key_val([next EXCEPT !.is_parsing_key = TRUE]) IN
            IF stored.pc = "returned" THEN stored
            ELSE [stored EXCEPT !.key = <<>>, !.val = <<>>]
        ELSE [next EXCEPT !.val = Append(@, c)]

\* if !key.is_empty() && !val.is_empty() { ... }
end_of_file(l) ==
    LET stored == IF l.key # <<>> /\ l.val # <<>> THEN store_key_val(l) ELSE l IN
    IF stored.pc = "returned" THEN stored ELSE [stored EXCEPT !.pc = "build"]

Required ==
    <<"sql_user", "sql_pass", "sql_addr", "sql_port", "sql_db",
      "oauth_user", "oauth_token", "base_url", "user_agent">>

\* Ok(Config { sql_user: sql_user?, ... }): the first local still Err, in the
\* order of the fields, is the error returned.
build(l) ==
    LET results == <<l.sql_user, l.sql_pass, l.sql_addr, l.sql_port, l.sql_db,
                     l.oauth_user, l.oauth_token, l.base_url, l.user_agent>>
        failed == {i \in DOMAIN results : ~results[i].ok}
    IN  IF failed # {}
        THEN results[CHOOSE i \in failed : \A j \in failed : i <= j]
        ELSE Ok([ sql_user |-> l.sql_user.val, sql_pass |-> l.sql_pass.val,
                  sql_addr |-> l.sql_addr.val, sql_port |-> l.sql_port.val,
                  sql_db |-> l.sql_db.val, tcp_addr |-> l.tcp_addr,
                  tcp_port |-> l.tcp_port, oauth_user |-> l.oauth_user.val,
                  oauth_token |-> l.oauth_token.val, base_url |-> l.base_url.val,
                  allowed_urls |-> l.allowed_urls, allowed_bids |-> l.allowed_bids,
                  user_agent |-> l.user_agent.val,
                  on_comment_cmds |-> l.on_comment_cmds, admins |-> l.admins ])

RECURSIVE run_bytes(_)
run_bytes(l) ==
    IF l.pc = "returned" THEN l
    ELSE IF l.pos > Len(l.file) THEN l
    ELSE run_bytes(read_byte(l))

\* Config::try_from on the text of a file: its Ok(Config) or its Err.
try_from(file) ==
    LET read == run_bytes(try_from_locals(file))
        last == IF read.pc = "returned" THEN read ELSE end_of_file(read)
    IN  IF last.pc = "returned" THEN last.ret ELSE build(last)

\* try_from run in main, before the server listens: one byte at a time.
try_from_bytes ==
    /\ req[1].kind = "try_from" /\ req[1].pc = "bytes"
    /\ req[1].pos <= Len(req[1].file)
    /\ req' = [req EXCEPT ![1] = read_byte(@)]
    /\ UNCHANGED <<GITHUB_RNG, PSEUDO_COMMENT, COMMENT, now, resp, issued, authed, served>>

try_from_end ==
    /\ req[1].kind = "try_from" /\ req[1].pc = "bytes"
    /\ req[1].pos > Len(req[1].file)
    /\ req' = [req EXCEPT ![1] = end_of_file(@)]
    /\ UNCHANGED <<GITHUB_RNG, PSEUDO_COMMENT, COMMENT, now, resp, issued, authed, served>>

try_from_build ==
    /\ req[1].kind = "try_from" /\ req[1].pc = "build"
    /\ req' = [req EXCEPT ![1] = [@ EXCEPT !.pc = "returned", !.ret = build(req[1])]]
    /\ UNCHANGED <<GITHUB_RNG, PSEUDO_COMMENT, COMMENT, now, resp, issued, authed, served>>

\* A config file as its author sees it: lines of a key and a value.
Line(key, val) == [key |-> key, val |-> val]

RECURSIVE Text(_, _, _)
\* The bytes of the file holding the lines, each but the last ended by eol,
\* the last ended by eol when final_newline.
Text(lines, eol, final_newline) ==
    IF lines = <<>> THEN <<>>
    ELSE <<Head(lines).key, EQ>> \o Head(lines).val
            \o (IF Len(lines) > 1 \/ final_newline THEN eol ELSE <<>>)
            \o Text(SubSeq(lines, 2, Len(lines)), eol, final_newline)

\* The nine keys a Config needs, once each.
Needed ==
    <<Line("sql_user", <<"u">>), Line("sql_pass", <<"p">>),
      Line("sql_addr", <<"db.host">>), Line("sql_port", <<"3", "3", "0", "6">>),
      Line("sql_db", <<"d">>), Line("oauth_user", <<"o">>),
      Line("oauth_token", <<"k">>), Line("base_url", <<"https://c.example">>),
      Line("user_agent", <<"ua">>)>>

Without(lines, key) ==
    SelectSeq(lines, LAMBDA line : line.key # key)

\* The lines a file goes on with after the needed ones.
MoreLines ==
    { Line("sql_pass", <<>>), Line("sql_pass", <<"p2">>),
      Line("user_agent", <<"ua2">>), Line("user_agent", <<>>),
      Line("tcp_addr", <<"0.0.0.0">>),
      Line("tcp_port", <<"8", "0">>), Line("tcp_port", <<"6", "5", "5", "3", "6">>),
      Line("tcp_port", <<>>),
      Line("allowed_url", <<"https://a.example/?x", EQ, "1">>),
      Line("allowed_url", <<"https://b.example">>),
      Line("allowed_bid", <<"p1">>), Line("colour", <<"red">>) }

MaxMoreLines == 2

ConfigLines ==
    { Without(Needed, absent) \o more :
        absent \in {"none", "sql_pass", "user_agent"},
        more \in UNION { [1..n -> MoreLines] : n \in 0..MaxMoreLines } }

\* main has been started on a config file of some lines, written with LF or
\* CRLF and with or without the newline after the last line.
InitConfig ==
    /\ GITHUB_RNG = {} /\ PSEUDO_COMMENT = {} /\ COMMENT = {}
    /\ now = 0 /\ resp = NoResponse /\ issued = {} /\ authed = {} /\ served = 0
    /\ \E lines \in ConfigLines, eol \in {<<LF>>, <<CR, LF>>}, final_newline \in BOOLEAN :
          req = [s \in Slots |->
                   IF s = 1
                   THEN try_from_locals(Text(lines, eol, final_newline))
                            @@ [written |-> [lines |-> lines, eol |-> eol,
                                             final_newline |-> final_newline]]
                   ELSE Idle]

NextConfig ==
    \/ try_from_bytes
    \/ try_from_end
    \/ try_from_build

SpecConfig == InitConfig /\ [][NextConfig]_vars

\* The file of the same lines with the newline after the last line added
\* or taken away.
OtherEnding(w) == Text(w.lines, w.eol, ~w.final_newline)

\* C37: try_from returns the same Config, or the same error, for a file of
\* key=value lines and for the same file with the final newline added or
\* removed.
C37_FinalNewlineIndifferent ==
    req[1].kind = "try_from" /\ req[1].pc = "returned"
        => req[1].ret = try_from(OtherEnding(req[1].written))


\* What the lines of a file say, read as the lines they are.
Occurs(lines, key) == \E i \in DOMAIN lines : lines[i].key = key
LastOf(lines, key) ==
    lines[CHOOSE i \in DOMAIN lines :
            /\ lines[i].key = key
            /\ \A j \in DOMAIN lines : lines[j].key = key => j <= i].val
LastOr(lines, key, default) ==
    IF Occurs(lines, key) THEN LastOf(lines, key) ELSE default
AllOf(lines, key) ==
    LET of_key == SelectSeq(lines, LAMBDA line : line.key = key) IN
    [i \in DOMAIN of_key |-> of_key[i].val]

\* C38: try_from succeeds exactly when each of the nine needed keys occurs
\* in the file and every tcp_port value parses as a u16; the Config then has
\* the last value of every scalar key, 127.0.0.1 and 8000 for an absent
\* tcp_addr and tcp_port, and the allowed_url and allowed_bid values in
\* file order.
C38_SucceedsIffComplete ==
    req[1].kind = "try_from" /\ req[1].pc = "returned"
        => LET lines == req[1].written.lines
               ret == req[1].ret
           IN  /\ ret.ok <=>
                     /\ \A i \in DOMAIN Required : Occurs(lines, Required[i])
                     /\ \A i \in DOMAIN lines :
                           lines[i].key = "tcp_port" => parse_u16(lines[i].val).ok
               /\ ret.ok =>
                     /\ ret.val.tcp_addr = LastOr(lines, "tcp_addr", <<"127.0.0.1">>)
                     /\ ret.val.tcp_port =
                           IF Occurs(lines, "tcp_port")
                           THEN parse_u16(LastOf(lines, "tcp_port")).val ELSE 8000
                     /\ ret.val.sql_user = LastOf(lines, "sql_user")
                     /\ ret.val.sql_pass = LastOf(lines, "sql_pass")
                     /\ ret.val.sql_addr = LastOf(lines, "sql_addr")
                     /\ ret.val.sql_port = LastOf(lines, "sql_port")
                     /\ ret.val.sql_db = LastOf(lines, "sql_db")
                     /\ ret.val.oauth_user = LastOf(lines, "oauth_user")
                     /\ ret.val.oauth_token = LastOf(lines, "oauth_token")
                     /\ ret.val.base_url = LastOf(lines, "base_url")
                     /\ ret.val.user_agent = LastOf(lines, "user_agent")
                     /\ ret.val.allowed_urls = AllOf(lines, "allowed_url")
                     /\ ret.val.allowed_bids = AllOf(lines, "allowed_bid")

====
